---- MODULE Spec2Model ----
(***************************************************************************)
(* FormatPacker: cyclic frame packing with a two-stage CP-SAT solve.       *)
(*                                                                         *)
(* The model follows src/FormatPacker.py and src/point_object.py.  A run   *)
(* is: the caller builds PointObjects and GroupObjectLists, constructs a   *)
(* FormatPacker, calls pack() (_build_model, then _solve with its two      *)
(* solver calls) and build_output() (_to_dataframes, _export_to_excel).    *)
(* The CP-SAT back end is modelled by its contract: Solve returns a status *)
(* and, for OPTIMAL / FEASIBLE, an assignment that satisfies every         *)
(* constraint the model holds.                                             *)
(***************************************************************************)
EXTENDS Integers, Sequences, FiniteSets, TLC

(* ------------------------------ bounds --------------------------------- *)
MaxPoints == 2        \* individual points in the input list
MaxPeriod == 2        \* periods are drawn from 1..MaxPeriod
MaxFrames == 3        \* num_frames is drawn from 2..MaxFrames
MaxStart  == 1        \* pinned start frames are drawn from 0..MaxStart and num_frames
MaxOffset == 2        \* pinned byte offsets are drawn from -1..MaxOffset
MaxSuffix == 2        \* numbered names that may exist before the packer is built

(* ----------------------- optional values (None) ------------------------ *)
None    == << >>
Some(v) == << v >>
Val(x)  == x[1]
\* Python's `x or 0`: None and 0 both give 0
OrZero(x) == IF x = None THEN 0 ELSE Val(x)

Abs(x) == IF x < 0 THEN 0 - x ELSE x
RECURSIVE gcd2(_, _)
gcd2(a, b) == IF b = 0 THEN Abs(a) ELSE gcd2(b, Abs(a) % Abs(b))

RECURSIVE SumSeq(_)
SumSeq(s) == IF s = << >> THEN 0 ELSE Head(s) + SumSeq(Tail(s))
MaxOf(S) == CHOOSE x \in S : \A y \in S : y <= x
MinOf(S) == CHOOSE x \in S : \A y \in S : x <= y

(* ------------------------- point_object.py ----------------------------- *)
\* PointObject.__init__: the byte offset is converted to bits
PointObject(name, size, period, start_frame, offset) ==
    [Name        |-> name,
     Size        |-> size,
     Period      |-> period,
     Start_Frame |-> start_frame,
     Offset      |-> IF offset # None THEN Some(Val(offset) * 8) ELSE None,
     start_unit  |-> None,
     phase_vars  |-> 0]

\* GroupObjectList.__init__: every member gets the group's period, start
\* frame and (bit) offset
GroupObjectList(period, points, start_frame, offset) ==
    [isGroup     |-> TRUE,
     Period      |-> period,
     Start_Frame |-> start_frame,
     Offset      |-> IF offset # None THEN Some(Val(offset) * 8) ELSE None,
     members     |-> [i \in 1..Len(points) |->
                        [points[i] EXCEPT
                           !.Period      = period,
                           !.Start_Frame = start_frame,
                           !.Offset      = IF offset # None
                                           THEN Some(Val(offset) * 8)
                                           ELSE None]]]

\* a bare PointObject as an element of the input list
Single(p) ==
    [isGroup |-> FALSE, Period |-> p.Period, Start_Frame |-> p.Start_Frame,
     Offset |-> p.Offset, members |-> << p >>]

(* ------------------------------ inputs --------------------------------- *)
Sizes        == {8, 16}
Periods      == 1..MaxPeriod
\* start frames: unset, the small ones and one past the last frame
StartFrames(n) == {None} \cup {Some(f) : f \in (0..MaxStart) \cup {n}}
\* byte offsets: unset, the small ones (the largest is past a 2-byte frame)
\* and one negative
Offsets      == {None} \cup {Some(b) : b \in (0 - 1)..MaxOffset}
FrameSizes   == {2}
NumFrames    == 2..MaxFrames

Points(n) ==
    {PointObject(0, sz, p, sf, off) :
        sz \in Sizes, p \in Periods, sf \in StartFrames(n), off \in Offsets}

\* points without pins
PlainPoints ==
    {PointObject(0, sz, p, None, None) : sz \in Sizes, p \in Periods}

\* the caller is expected to supply unique names: the k-th point built is k
Named(p, k) == [p EXCEPT !.Name = k]

\* the unpinned point that fills a list or stands next to a group: the
\* smallest size, in every frame
Outsiders ==
    {q \in PlainPoints : q.Period = 1 /\ \A r \in PlainPoints : q.Size <= r.Size}

\* the second point of a list: any size and period, pinned to the first
\* frame, to the first byte, to both or not at all
Seconds(n) ==
    {p \in Points(n) : p.Start_Frame \in {None, Some(0)}
                        /\ p.Offset \in {None, Some(0)}}

\* the first one or two points of a list of k; a list of more than two
\* points has no pins
Heads(n, k) ==
    IF k < 2 THEN {<< p >> : p \in Points(n)}
    ELSE IF k = 2 THEN {<< p, q >> : p \in Points(n), q \in Seconds(n)}
    ELSE {<< p, q >> : p \in PlainPoints, q \in PlainPoints}

\* input lists: up to MaxPoints individual points, of which the first
\* ranges over every pin combination, the second over Seconds and the
\* further ones are fillers; or one group of two members
PointLists(n) ==
    UNION {{head \o tail :
               head \in Heads(n, k),
               tail \in [1..(k - 2) -> Outsiders]} :
              k \in 1..MaxPoints}

\* a group of two members named k0 + 1 and k0 + 2; the members are built as
\* plain points and take the group's period, start frame and offset
Group(s1, s2, p, sf, off, k0) ==
    GroupObjectList(p, << Named(PointObject(0, s1, 1, None, None), k0 + 1),
                          Named(PointObject(0, s2, 1, None, None), k0 + 2) >>,
                    sf, off)

GroupLists(n) ==
    {<< Group(s1, s2, p, sf, off, 0) >> :
        s1 \in Sizes, s2 \in Sizes, p \in Periods,
        sf \in StartFrames(n), off \in Offsets}

\* a group next to one unpinned point, before or behind it in the list
GroupFrameSizes == {4}
MixedLists(n) ==
    UNION {{<< Group(s1, s2, p, sf, off, 0), Single(Named(q, 3)) >>,
            << Single(Named(q, 1)), Group(s1, s2, p, sf, off, 1) >>} :
        s1 \in Sizes, s2 \in Sizes, p \in Periods,
        sf \in StartFrames(n), off \in Offsets, q \in Outsiders}

InputLists(n) ==
    {[i \in 1..Len(l) |-> Single(Named(l[i], i))] : l \in PointLists(n)}
    \cup GroupLists(n)
    \cup {<< >>}          \* no points at all

(* ------------------------------- state --------------------------------- *)
VARIABLES
    pc,              \* position of the caller: new, constructed, built, ...
    args,            \* arguments of FormatPacker(objects, frame_size, num_frames)
    objects,         \* self.objects: the flattened point list
    groups,          \* self._groups: each group as the indices of its members
    FRAME_SIZE_BITS, \* self.FRAME_SIZE_BITS
    NUM_FRAMES,      \* self.NUM_FRAMES
    UNIT,            \* self.UNIT
    CAP,             \* self.CAP
    model,           \* self.model: the CP-SAT model built so far
    solver,          \* self.solver: number of Solve calls and the last solution
    status1,         \* status of the stage-1 Solve
    status2,         \* status of the stage-2 Solve
    error,           \* the exception raised, if any
    schedule_df,     \* Schedule table
    memorymap_df,    \* MemoryMap table
    frameorder_df,   \* FrameOrder table
    framesummary_df, \* FrameSummary table
    written,         \* the output workbook has been written
    OUTPUT_PATH,     \* the name of the workbook this packer writes
    files,           \* the names that exist in the output directory
    previous,        \* the tables of an earlier run on the same input, if any
    self,            \* identity of the packer whose state the variables above hold
    other            \* a second packer of the same program, if any

vars == << pc, args, objects, groups, FRAME_SIZE_BITS, NUM_FRAMES, UNIT, CAP,
           model, solver, status1, status2, error,
           schedule_df, memorymap_df, frameorder_df, framesummary_df, written, OUTPUT_PATH, files, previous,
           self, other >>

EmptyModel ==
    [vars        |-> << >>,   \* per point: domain of start_unit, number of phase booleans
     pin         |-> {},      \* <<i, v>>       : start_unit_i = v
     exactly_one |-> {},      \* i              : exactly one phase boolean of i is true
     phase_eq    |-> {},      \* <<i, j, s>>    : phase_j[s] = phase_i[s]
     follow      |-> {},      \* <<i, j, d>>    : start_unit_j = start_unit_i + d
     no_overlap  |-> << >>,   \* per frame: set of intervals [obj, size, lit]
     total_util  |-> 0,       \* NewConstant
     end_unit    |-> {},      \* <<i, d, ub>>   : end_i = start_unit_i + d, in 0..ub
     fixed_util  |-> None,    \* total_util = U added for stage 2
     hints       |-> << >>,   \* AddHint values
     objective   |-> "none"]

\* a packer before its constructor runs
Blank ==
    /\ pc = "new"
    /\ objects = << >>
    /\ groups = << >>
    /\ FRAME_SIZE_BITS = 0
    /\ NUM_FRAMES = 0
    /\ UNIT = 0
    /\ CAP = 0
    /\ model = EmptyModel
    /\ solver = [calls |-> 0, value |-> << >>, max_end |-> 0]
    /\ status1 = "none"
    /\ status2 = "none"
    /\ error = "none"
    /\ schedule_df = << >>
    /\ memorymap_df = << >>
    /\ frameorder_df = << >>
    /\ framesummary_df = << >>
    /\ written = FALSE
    /\ OUTPUT_PATH = << >>

\* nothing of the packer exists before its constructor runs, and there has
\* been no earlier run
Fresh ==
    /\ Blank
    /\ previous = << >>
    /\ self = 1
    /\ other = << >>
    /\ files = {}

(* ------------------- point objects are shared by reference -------------- *)
\* A PointObject is one Python object wherever it is listed; its Name stands
\* for its identity.  Latest(o, objs) is o as it reads after the points of
\* objs have been assigned to.
Latest(o, objs) ==
    IF \E j \in 1..Len(objs) : objs[j].Name = o.Name
    THEN objs[CHOOSE j \in 1..Len(objs) : objs[j].Name = o.Name]
    ELSE o

\* the caller's list after the points of objs have been assigned to
UpdateList(l, objs) ==
    [i \in 1..Len(l) |->
        IF l[i].isGroup
        THEN [l[i] EXCEPT !.members =
                 [k \in 1..Len(l[i].members) |-> Latest(l[i].members[k], objs)]]
        ELSE Single(Latest(l[i].members[1], objs))]

\* the second packer after the points of objs have been assigned to
SyncOther(o, objs) ==
    IF o = << >> THEN o
    ELSE [o EXCEPT
            !.objects = [i \in 1..Len(o.objects) |-> Latest(o.objects[i], objs)],
            !.args    = [o.args EXCEPT !.objects = UpdateList(o.args.objects, objs)]]

(* ----------------------- FormatPacker.__init__ ------------------------- *)
\* Propagate with the group's offset given to every member
Propagate_OffsetToAll(grp) ==
    [i \in 1..Len(grp.members) |->
        [grp.members[i] EXCEPT
            !.Period      = grp.Period,
            !.Start_Frame = grp.Start_Frame,
            !.Offset      = grp.Offset]]

\* group propagation of the constructor: period and start frame to every
\* member, the group's offset to the first member only
Propagate(grp) ==
    [i \in 1..Len(grp.members) |->
        [grp.members[i] EXCEPT
            !.Period      = grp.Period,
            !.Start_Frame = grp.Start_Frame,
            !.Offset      = IF i = 1 THEN grp.Offset ELSE None]]

RECURSIVE Flatten(_, _, _)
Flatten(l, objs, grps) ==
    IF l = << >> THEN [objects |-> objs, groups |-> grps]
    ELSE LET it == Head(l) IN
         IF it.isGroup
         THEN Flatten(Tail(l), objs \o Propagate(it),
                      Append(grps, [i \in 1..Len(it.members) |-> Len(objs) + i]))
         ELSE Flatten(Tail(l), objs \o it.members, grps)

\* math.gcd over the elements of a set; 0 for the empty set
RECURSIVE gcdSet(_)
gcdSet(S) ==
    IF S = {} THEN 0
    ELSE LET x == CHOOSE y \in S : TRUE
         IN gcd2(x, gcdSet(S \ {x}))

\* unique_sizes, and defined_offsets_b: the offsets that are neither None
\* nor 0 (`if obj.Offset`)
UniqueSizes(objs) == {objs[i].Size : i \in 1..Len(objs)}
DefinedOffsets(objs) ==
    {Val(objs[i].Offset) :
        i \in {j \in 1..Len(objs) : objs[j].Offset # None /\ Val(objs[j].Offset) # 0}}

\* UNIT = gcd(*unique_sizes, *defined_offsets_b, FRAME_SIZE_BITS)
UnitOf(objs, fsb) ==
    gcd2(gcdSet(UniqueSizes(objs)), gcd2(gcdSet(DefinedOffsets(objs)), fsb))

Init ==
    /\ \E n \in NumFrames, fs \in FrameSizes :
         \E l \in InputLists(n) :
            args = [objects |-> l, frame_size |-> fs, num_frames |-> n]
    /\ Fresh

\* the inputs within the documented contract: every period a factor of
\* num_frames, every start frame and offset within range
InitValid ==
    /\ Init
    /\ LET objs == Flatten(args.objects, << >>, << >>).objects
       IN \A i \in 1..Len(objs) :
             /\ args.num_frames % objs[i].Period = 0
             /\ objs[i].Start_Frame # None =>
                   (Val(objs[i].Start_Frame) >= 0
                      /\ Val(objs[i].Start_Frame) < args.num_frames)
             /\ objs[i].Offset # None =>
                   (Val(objs[i].Offset) >= 0
                      /\ Val(objs[i].Offset) + objs[i].Size <= args.frame_size * 8)

\* inputs with a group: alone, or next to an unpinned point in a wider frame
InitGroup ==
    /\ \E n \in NumFrames, fs \in GroupFrameSizes :
         \E l \in GroupLists(n) \cup MixedLists(n) :
            args = [objects |-> l, frame_size |-> fs, num_frames |-> n]
    /\ Fresh

\* scenario S2: A(size=16, period=2), B(size=16, period=4), frame_size 8
\* bytes, num_frames 4
InitS2 ==
    /\ args = [objects    |-> << Single(PointObject(1, 16, 2, None, None)),
                                 Single(PointObject(2, 16, 4, None, None)) >>,
               frame_size |-> 8,
               num_frames |-> 4]
    /\ Fresh

\* scenario S3: A(size=32, period=32, offset=8 bytes), frame_size 1000
\* bytes, num_frames 32
InitS3 ==
    /\ args = [objects    |-> << Single(PointObject(1, 32, 32, None, Some(8))) >>,
               frame_size |-> 1000,
               num_frames |-> 32]
    /\ Fresh

\* inputs that are run twice: one point with any pins, or two unpinned points
RerunLists(n) ==
    {<< Single(Named(p, 1)) >> : p \in Points(n)}
    \cup {<< Single(Named(p, 1)), Single(Named(q, 2)) >> :
             p \in PlainPoints, q \in PlainPoints}

InitRerun ==
    /\ \E n \in NumFrames, fs \in FrameSizes :
         \E l \in RerunLists(n) :
            args = [objects |-> l, frame_size |-> fs, num_frames |-> n]
    /\ Fresh

\* members as the caller builds them before grouping: the smallest size,
\* with a period, start frame and byte offset of their own
MemberPoints ==
    {PointObject(0, sz, p, sf, off) :
        sz \in {MinOf(Sizes)}, p \in Periods,
        sf \in {None, Some(0)}, off \in {None, Some(1)}}

\* one group of two such members; args.offset is the byte offset the caller
\* passes to the group constructor
InitPropagation ==
    /\ \E n \in NumFrames, fs \in GroupFrameSizes :
         \E m1 \in MemberPoints,
            m2 \in {m \in MemberPoints : m.Period = 1 /\ m.Start_Frame = None},
            p \in Periods, sf \in StartFrames(n), off \in Offsets :
            args = [objects    |-> << GroupObjectList(p, << Named(m1, 1), Named(m2, 2) >>,
                                                      sf, off) >>,
                    frame_size |-> fs,
                    num_frames |-> n,
                    offset     |-> off]
    /\ Fresh

(* ----------------------------- output path ----------------------------- *)
\* a file name is the sequence of its pieces: words without a dot, "." ,
\* "_" and decimal digits
DefaultPath == << "packer_out", ".", "xlsx" >>

\* output_path, or its default when the caller passes none
RequestedPath(a) ==
    IF "output_path" \in DOMAIN a THEN a.output_path ELSE DefaultPath

\* the position of the dot that starts the suffix: the last dot, unless it
\* is the first or the last piece of the name; 0 when there is none
SuffixDot(name) ==
    LET dots == {j \in 1..Len(name) : name[j] = "."}
    IN IF dots = {} THEN 0
       ELSE IF 1 < MaxOf(dots) /\ MaxOf(dots) < Len(name) THEN MaxOf(dots)
            ELSE 0

\* PurePath.suffix and PurePath.stem
Suffix(name) ==
    IF SuffixDot(name) = 0 THEN << >>
    ELSE SubSeq(name, SuffixDot(name), Len(name))

Stem(name) ==
    IF SuffixDot(name) = 0 THEN name
    ELSE SubSeq(name, 1, SuffixDot(name) - 1)

\* PurePath.with_stem: the new stem followed by the suffix of this name
WithStem(name, stem) == stem \o Suffix(name)

\* str(i), in decimal digits
Digit(d) ==
    CASE d = 0 -> "0" [] d = 1 -> "1" [] d = 2 -> "2" [] d = 3 -> "3"
      [] d = 4 -> "4" [] d = 5 -> "5" [] d = 6 -> "6" [] d = 7 -> "7"
      [] d = 8 -> "8" [] OTHER -> "9"

RECURSIVE Str(_)
Str(i) ==
    IF i < 10 THEN << Digit(i) >>
    ELSE Append(Str(i \div 10), Digit(i % 10))

\* the while loop of the constructor: as long as the path exists, replace
\* the stem of the current path by the requested stem, "_" and the counter
RECURSIVE FreePath(_, _, _, _)
FreePath(path, requested, i, existing) ==
    IF path \notin existing THEN path
    ELSE FreePath(WithStem(path, Stem(requested) \o << "_" >> \o Str(i)),
                  requested, i + 1, existing)

\* the requested names: with and without an extension, one that ends in a
\* counter of its own, one that ends in a dot
RequestedNames ==
    {<< "a", ".", "xlsx" >>, << "a" >>, << "a", "_", "0", ".", "xlsx" >>,
     << "a", "." >>}

\* the i-th name of the sequence stem_0, stem_1, ... of a requested name
Numbered(requested, i) ==
    Stem(requested) \o << "_" >> \o Str(i) \o Suffix(requested)

\* the output directory holds any of the requested name and its first
\* MaxSuffix numbered names
InitPaths ==
    /\ \E n \in NumFrames, fs \in FrameSizes, q \in Outsiders :
       \E r \in RequestedNames :
          args = [objects |-> << Single(Named(q, 1)) >>, frame_size |-> fs,
                  num_frames |-> n, output_path |-> r]
    /\ files \in SUBSET ({RequestedPath(args)} \cup
                          {Numbered(RequestedPath(args), i) :
                               i \in 0..(MaxSuffix - 1)})
    /\ Blank
    /\ previous = << >>
    /\ self = 1
    /\ other = << >>

\* a packer of its own, not yet constructed, as the record kept in other
BlankPacker(a, id) ==
    [pc |-> "new", args |-> a, objects |-> << >>, groups |-> << >>,
     FRAME_SIZE_BITS |-> 0, NUM_FRAMES |-> 0, UNIT |-> 0, CAP |-> 0,
     model |-> EmptyModel,
     solver |-> [calls |-> 0, value |-> << >>, max_end |-> 0],
     status1 |-> "none", status2 |-> "none", error |-> "none",
     schedule_df |-> << >>, memorymap_df |-> << >>, frameorder_df |-> << >>,
     framesummary_df |-> << >>, written |-> FALSE, OUTPUT_PATH |-> << >>,
     self |-> id]

\* two packers: the first is given two small unpinned points, the second the
\* same two points in the same or in the opposite order, or two of its own
InitTwo ==
    /\ \E n \in NumFrames, fs \in FrameSizes :
         \E p \in Outsiders, q \in Outsiders :
            LET l  == << Single(Named(p, 1)), Single(Named(q, 2)) >>
                lr == << Single(Named(q, 2)), Single(Named(p, 1)) >>
                lo == << Single(Named(p, 3)), Single(Named(q, 4)) >>
            IN \E l2 \in {l, lr, lo} :
                 /\ args = [objects |-> l, frame_size |-> fs, num_frames |-> n]
                 /\ other = BlankPacker([objects |-> l2, frame_size |-> fs,
                                         num_frames |-> n], 2)
    /\ Blank
    /\ previous = << >>
    /\ self = 1
    /\ files = {}

New ==
    /\ pc = "new"
    /\ LET f   == Flatten(args.objects, << >>, << >>)
           fsb == args.frame_size * 8
           u   == UnitOf(f.objects, fsb)
       IN /\ objects' = f.objects
          /\ groups' = f.groups
          /\ FRAME_SIZE_BITS' = fsb
          /\ NUM_FRAMES' = args.num_frames
          /\ UNIT' = u
          /\ CAP' = fsb \div u
          /\ args' = [args EXCEPT !.objects = UpdateList(args.objects, f.objects)]
          /\ other' = SyncOther(other, f.objects)
    /\ OUTPUT_PATH' = FreePath(RequestedPath(args), RequestedPath(args), 0, files)
    /\ pc' = "constructed"
    /\ UNCHANGED << previous, self, model, solver, status1, status2, error,
                    schedule_df, memorymap_df, frameorder_df, framesummary_df, written,
                    files >>

(* --------------------------- _build_model ------------------------------ *)
\* HasPhases without the test for an unset start frame
HasPhases_AnyStart(o) == o.Period > 1

\* HasPhases that takes start frame 0 for no start frame (`not Start_Frame`)
HasPhases_Truthy(o) == OrZero(o.Start_Frame) = 0 /\ o.Period > 1

\* a point gets phase booleans iff it has no start frame and a period > 1
HasPhases(o) == o.Start_Frame = None /\ o.Period > 1

\* ModelVars with the size left in bits in the upper bound of start_unit
ModelVars_UnscaledSize(objs, unit, cap) ==
    [i \in 1..Len(objs) |->
        [lb     |-> 0,
         ub     |-> cap - objs[i].Size,
         nphase |-> IF HasPhases(objs[i]) THEN objs[i].Period ELSE 0]]

\* step 1: start_unit in [0, CAP - Size // UNIT], one boolean per phase
ModelVars(objs, unit, cap) ==
    [i \in 1..Len(objs) |->
        [lb     |-> 0,
         ub     |-> cap - (objs[i].Size \div unit),
         nphase |-> IF HasPhases(objs[i]) THEN objs[i].Period ELSE 0]]

\* Pins with the offset left in bits
Pins_Bits(objs, unit) ==
    {<< i, Val(objs[i].Offset) >> :
        i \in {j \in 1..Len(objs) : objs[j].Offset # None}}

\* Pins with no offset pinned
Pins_None(objs, unit) == {}

\* step 1: start_unit == Offset // UNIT for every point with an offset
Pins(objs, unit) ==
    {<< i, Val(objs[i].Offset) \div unit >> :
        i \in {j \in 1..Len(objs) : objs[j].Offset # None}}

\* step 1: AddExactlyOne(phase_vars)
ExactlyOnes(objs) == {i \in 1..Len(objs) : HasPhases(objs[i])}

\* step 2.1: equal phase booleans for consecutive members that both have them
PhaseEqs(objs, grps) ==
    UNION {UNION {IF HasPhases(objs[grps[g][k]]) /\ HasPhases(objs[grps[g][k + 1]])
                  THEN {<< grps[g][k], grps[g][k + 1], s >> :
                            s \in 0..(objs[grps[g][k]].Period - 1)}
                  ELSE {} : k \in 1..(Len(grps[g]) - 1)} : g \in 1..Len(grps)}

\* Follows with the size of the following member instead of the previous one
Follows_NextSize(objs, grps, unit) ==
    UNION {{<< grps[g][k], grps[g][k + 1], objs[grps[g][k + 1]].Size \div unit >> :
                k \in 1..(Len(grps[g]) - 1)} : g \in 1..Len(grps)}

\* step 2.2: each member starts where the previous one ends
Follows(objs, grps, unit) ==
    UNION {{<< grps[g][k], grps[g][k + 1], objs[grps[g][k]].Size \div unit >> :
                k \in 1..(Len(grps[g]) - 1)} : g \in 1..Len(grps)}

\* FrameIntervals with the phase test dropped from the optional branch: the
\* interval of every phase is put into every frame
FrameIntervals_EveryPhase(objs, unit, frame) ==
    UNION {LET o  == objs[i]
               sz == o.Size \div unit
           IN IF o.Start_Frame # None \/ o.Period = 1
              THEN LET sf == OrZero(o.Start_Frame)
                   IN IF frame >= sf /\ (frame - sf) % o.Period = 0
                      THEN {[obj |-> i, size |-> sz, lit |-> 0 - 1]}
                      ELSE {}
              ELSE {[obj |-> i, size |-> sz, lit |-> s] :
                       s \in 0..((IF HasPhases(o) THEN o.Period ELSE 0) - 1)}
           : i \in 1..Len(objs)}

\* FrameIntervals with the start frame dropped from the mandatory branch
FrameIntervals_NoStartFrame(objs, unit, frame) ==
    UNION {LET o  == objs[i]
               sz == o.Size \div unit
           IN IF o.Start_Frame # None \/ o.Period = 1
              THEN IF frame % o.Period = 0
                   THEN {[obj |-> i, size |-> sz, lit |-> 0 - 1]}
                   ELSE {}
              ELSE {[obj |-> i, size |-> sz, lit |-> s] :
                       s \in {t \in 0..(o.Period - 1) : frame % o.Period = t}}
           : i \in 1..Len(objs)}

\* step 3: the intervals of one frame; lit = -1 marks a mandatory interval,
\* lit = s an optional one that is present iff phase boolean s is true
FrameIntervals(objs, unit, frame) ==
    UNION {LET o  == objs[i]
               sz == o.Size \div unit
           IN IF o.Start_Frame # None \/ o.Period = 1
              THEN LET sf == OrZero(o.Start_Frame)
                   IN IF frame >= sf /\ (frame - sf) % o.Period = 0
                      THEN {[obj |-> i, size |-> sz, lit |-> 0 - 1]}
                      ELSE {}
              ELSE {[obj |-> i, size |-> sz, lit |-> s] :
                       s \in {t \in 0..((IF HasPhases(o) THEN o.Period ELSE 0) - 1) :
                                frame % o.Period = t}}
           : i \in 1..Len(objs)}

\* step 4: total_util = sum(Size * (NUM_FRAMES // Period))
TotalUtil(objs, nframes) ==
    SumSeq([i \in 1..Len(objs) |-> objs[i].Size * (nframes \div objs[i].Period)])

\* EndUnits with the size left out
EndUnits_NoSize(objs, unit, cap) == {<< i, 0, cap >> : i \in 1..Len(objs)}

\* step 5.1: end_i = start_unit_i + Size // UNIT
EndUnits(objs, unit, cap) ==
    {<< i, objs[i].Size \div unit, cap >> : i \in 1..Len(objs)}

\* index, within its model, of the start_unit variable of the k-th point:
\* step 1 creates, point by point, one integer variable and the phase
\* booleans, which take the following indices
VarIndex(objs, k) ==
    SumSeq([j \in 1..(k - 1) |->
               1 + (IF HasPhases(objs[j]) THEN objs[j].Period ELSE 0)])

\* step 1 stores the new variables on the points: start_unit as the pair
\* << model, index >>, phase_vars as the number of booleans that follow it
WithVars(objs, id) ==
    [i \in 1..Len(objs) |->
        [objs[i] EXCEPT
            !.start_unit = Some(<< id, VarIndex(objs, i) >>),
            !.phase_vars = IF HasPhases(objs[i]) THEN objs[i].Period ELSE 0]]

BuildModel ==
    /\ pc = "constructed"
    /\ objects' = WithVars(objects, self)
    /\ args' = [args EXCEPT !.objects = UpdateList(args.objects, WithVars(objects, self))]
    /\ other' = SyncOther(other, WithVars(objects, self))
    /\ model' = [model EXCEPT
                   !.vars        = ModelVars(objects, UNIT, CAP),
                   !.pin         = Pins(objects, UNIT),
                   !.exactly_one = ExactlyOnes(objects),
                   !.phase_eq    = PhaseEqs(objects, groups),
                   !.follow      = Follows(objects, groups, UNIT),
                   !.no_overlap  = [f \in 0..(NUM_FRAMES - 1) |->
                                       FrameIntervals(objects, UNIT, f)],
                   !.total_util  = TotalUtil(objects, NUM_FRAMES),
                   !.end_unit    = EndUnits(objects, UNIT, CAP)]
    /\ pc' = "built"
    /\ UNCHANGED << previous, self, groups, FRAME_SIZE_BITS, NUM_FRAMES, UNIT, CAP,
                    solver, status1, status2, error,
                    schedule_df, memorymap_df, frameorder_df, framesummary_df, written,
                    OUTPUT_PATH, files >>

(* ------------------------ the CP-SAT contract -------------------------- *)
\* values a phase-boolean vector of variable i may take: with AddExactlyOne
\* only the unit vectors are left
PhaseChoices(m, i) ==
    LET n == m.vars[i].nphase
    IN IF i \in m.exactly_one
       THEN {[s \in 0..(n - 1) |-> s = t] : t \in 0..(n - 1)}
       ELSE [0..(n - 1) -> BOOLEAN]

\* every assignment of the first k points within the variables' domains
RECURSIVE Assignments(_, _)
Assignments(m, k) ==
    IF k = 0 THEN {<< >>}
    ELSE {Append(a, [start_unit |-> su, phase_vars |-> pv]) :
             a  \in Assignments(m, k - 1),
             su \in m.vars[k].lb .. m.vars[k].ub,
             pv \in PhaseChoices(m, k)}

\* an interval is present if mandatory or if its phase boolean is true
Present(a, x) == x.lit = 0 - 1 \/ a[x.obj].phase_vars[x.lit]

Disjoint(a, x, y) ==
    \/ a[x.obj].start_unit + x.size <= a[y.obj].start_unit
    \/ a[y.obj].start_unit + y.size <= a[x.obj].start_unit

\* value of max_end under a: AddMaxEquality(max_end, end_unit)
MaxEnd(m, a) == MaxOf({a[e[1]].start_unit + e[2] : e \in m.end_unit})

Satisfies(m, a) ==
    /\ \A c \in m.pin : a[c[1]].start_unit = c[2]
    /\ \A i \in m.exactly_one :
          Cardinality({s \in DOMAIN a[i].phase_vars : a[i].phase_vars[s]}) = 1
    /\ \A c \in m.phase_eq : a[c[2]].phase_vars[c[3]] = a[c[1]].phase_vars[c[3]]
    /\ \A c \in m.follow : a[c[2]].start_unit = a[c[1]].start_unit + c[3]
    /\ \A f \in DOMAIN m.no_overlap :
          \A x, y \in m.no_overlap[f] :
             (x # y /\ Present(a, x) /\ Present(a, y)) => Disjoint(a, x, y)
    /\ \A e \in m.end_unit :
          a[e[1]].start_unit + e[2] >= 0 /\ a[e[1]].start_unit + e[2] <= e[3]
    /\ m.fixed_util # None => m.total_util = Val(m.fixed_util)
    \* AddMaxEquality(max_end, end_unit): max_end equals one of the end
    \* units; over an empty list nothing can
    /\ \E e \in m.end_unit : \A d \in m.end_unit :
          a[d[1]].start_unit + d[2] <= a[e[1]].start_unit + e[2]

Solutions(m) == {a \in Assignments(m, Len(m.vars)) : Satisfies(m, a)}

\* the solutions an OPTIMAL status may come with
Optimal(m, S) ==
    IF m.objective = "min_max_end"
    THEN {a \in S : \A b \in S : MaxEnd(m, a) <= MaxEnd(m, b)}
    ELSE S     \* total_util is a constant: every solution maximises it

\* Solve(model): a status and, for OPTIMAL and FEASIBLE, a solution.  UNKNOWN
\* (time limit) can come with any model.
SolveOutcomes(m) ==
    LET S == Solutions(m)
    IN {[status |-> "OPTIMAL", value |-> a] : a \in Optimal(m, S)}
       \cup {[status |-> "FEASIBLE", value |-> a] : a \in S}
       \cup {[status |-> "UNKNOWN", value |-> << >>]}
       \cup (IF S = {} THEN {[status |-> "INFEASIBLE", value |-> << >>]} ELSE {})

(* ------------------------------- _solve -------------------------------- *)
\* BestUtil reading max_end in place of total_util
BestUtil_MaxEnd(m, a) == MaxEnd(m, a)

\* best_util_1 = solver.Value(total_util): the value of the constant
BestUtil(m, a) == m.total_util

\* stage 1: Maximize(total_util), Solve, classify; on success add the hints
\* and freeze total_util
Stage1 ==
    /\ pc = "built"
    /\ LET m1 == [model EXCEPT !.objective = "max_total_util"]
       IN \E r \in SolveOutcomes(m1) :
            /\ status1' = r.status
            /\ IF r.status \in {"OPTIMAL", "FEASIBLE"}
               THEN /\ solver' = [calls   |-> solver.calls + 1,
                                  value   |-> r.value,
                                  max_end |-> MaxEnd(m1, r.value)]
                    /\ model' = [m1 EXCEPT
                                   !.hints      = r.value,
                                   !.fixed_util = Some(BestUtil(m1, r.value))]
                    /\ error' = "none"
                    /\ pc' = "stage2"
               ELSE /\ solver' = [solver EXCEPT !.calls = solver.calls + 1]
                    /\ model' = m1
                    /\ error' = "Stage1"
                    /\ pc' = "failed"
    /\ UNCHANGED << args, previous, self, other, objects, groups, FRAME_SIZE_BITS, NUM_FRAMES, UNIT, CAP,
                    status2, schedule_df, memorymap_df, frameorder_df, framesummary_df, written,
                    OUTPUT_PATH, files >>

\* Stage2 that accepts a proven optimum only
Stage2_OptimalOnly ==
    /\ pc = "stage2"
    /\ LET m2 == [model EXCEPT !.objective = "min_max_end"]
       IN /\ model' = m2
          /\ \E r \in SolveOutcomes(m2) :
               /\ status2' = r.status
               /\ IF r.status = "OPTIMAL"
                  THEN /\ solver' = [calls   |-> solver.calls + 1,
                                     value   |-> r.value,
                                     max_end |-> MaxEnd(m2, r.value)]
                       /\ error' = "none"
                       /\ pc' = "packed"
                  ELSE /\ solver' = [solver EXCEPT !.calls = solver.calls + 1]
                       /\ error' = "Stage2"
                       /\ pc' = "failed"
    /\ UNCHANGED << args, previous, self, other, objects, groups, FRAME_SIZE_BITS, NUM_FRAMES, UNIT, CAP,
                    status1, schedule_df, memorymap_df, frameorder_df, framesummary_df, written,
                    OUTPUT_PATH, files >>

\* stage 2: Minimize(max_end), Solve, classify
Stage2 ==
    /\ pc = "stage2"
    /\ LET m2 == [model EXCEPT !.objective = "min_max_end"]
       IN /\ model' = m2
          /\ \E r \in SolveOutcomes(m2) :
               /\ status2' = r.status
               /\ IF r.status \in {"OPTIMAL", "FEASIBLE"}
                  THEN /\ solver' = [calls   |-> solver.calls + 1,
                                     value   |-> r.value,
                                     max_end |-> MaxEnd(m2, r.value)]
                       /\ error' = "none"
                       /\ pc' = "packed"
                  ELSE /\ solver' = [solver EXCEPT !.calls = solver.calls + 1]
                       /\ error' = "Stage2"
                       /\ pc' = "failed"
    /\ UNCHANGED << args, previous, self, other, objects, groups, FRAME_SIZE_BITS, NUM_FRAMES, UNIT, CAP,
                    status1, schedule_df, memorymap_df, frameorder_df, framesummary_df, written,
                    OUTPUT_PATH, files >>

(* --------------------------- _to_dataframes ---------------------------- *)
\* next(i for i, pv in enumerate(phase_vars) if Value(pv)); AddExactlyOne
\* makes one boolean true, so the generator is never exhausted
ChosenPhase(pv) == MinOf({s \in DOMAIN pv : pv[s]})

\* InFrame with a strict comparison against the start frame
InFrame_Strict(o, v, frame) ==
    IF o.phase_vars > 0
    THEN frame % o.Period = ChosenPhase(v.phase_vars)
    ELSE LET sf == OrZero(o.Start_Frame)
         IN frame > sf /\ (frame - sf) % o.Period = 0

\* InFrame that takes phase 0 for the chosen phase
InFrame_PhaseZero(o, v, frame) ==
    IF o.phase_vars > 0
    THEN frame % o.Period = 0
    ELSE LET sf == OrZero(o.Start_Frame)
         IN frame >= sf /\ (frame - sf) % o.Period = 0

\* in_frame of the materializer, for point o with solver values v
InFrame(o, v, frame) ==
    IF o.phase_vars > 0
    THEN frame % o.Period = ChosenPhase(v.phase_vars)
    ELSE LET sf == OrZero(o.Start_Frame)
         IN frame >= sf /\ (frame - sf) % o.Period = 0

\* StartBit without the scaling back to bits
StartBit_Unscaled(v, unit) == v.start_unit

\* start_bit = Value(start_unit) * UNIT
StartBit(v, unit) == v.start_unit * unit

\* step 2: one row per point, the name in the frames where it occurs, else ""
\* (written 0)
Schedule(objs, val, nframes) ==
    [i \in 1..Len(objs) |->
        [f \in 0..(nframes - 1) |->
            IF InFrame(objs[i], val[i], f) THEN objs[i].Name ELSE 0]]

\* MemoryMap without the in_frame test: a point is written into every frame
RECURSIVE MemoryMap_EveryFrame(_, _, _, _, _, _)
MemoryMap_EveryFrame(objs, val, unit, fsb, nframes, k) ==
    IF k = 0
    THEN [index |-> fsb, columns |-> nframes, cells |-> << >>]
    ELSE LET prev == MemoryMap_EveryFrame(objs, val, unit, fsb, nframes, k - 1)
             sb   == StartBit(val[k], unit)
             new  == {<< b, f >> : b \in sb..(sb + objs[k].Size - 1),
                                   f \in 0..(nframes - 1)}
         IN [prev EXCEPT !.cells =
               [c \in (DOMAIN prev.cells) \cup new |->
                  IF c \in new THEN objs[k].Name ELSE prev.cells[c]]]

\* step 3: a grid of FRAME_SIZE_BITS rows and NUM_FRAMES columns that starts
\* empty; the first k points are written in list order, a later write
\* replacing an earlier one.  Only the written cells << bit, frame >> are
\* kept, every other cell of the grid is ""
RECURSIVE MemoryMap(_, _, _, _, _, _)
MemoryMap(objs, val, unit, fsb, nframes, k) ==
    IF k = 0
    THEN [index |-> fsb, columns |-> nframes, cells |-> << >>]
    ELSE LET prev == MemoryMap(objs, val, unit, fsb, nframes, k - 1)
             sb   == StartBit(val[k], unit)
             new  == {<< b, f >> : b \in sb..(sb + objs[k].Size - 1),
                                   f \in {g \in 0..(nframes - 1) :
                                             InFrame(objs[k], val[k], g)}}
         IN [prev EXCEPT !.cells =
               [c \in (DOMAIN prev.cells) \cup new |->
                  IF c \in new THEN objs[k].Name ELSE prev.cells[c]]]

\* list.sort(key = start_bit) is stable: e goes behind every entry whose key
\* is not larger
RECURSIVE InsertSorted(_, _)
InsertSorted(l, e) ==
    IF l = << >> THEN << e >>
    ELSE IF l[Len(l)][2] <= e[2] THEN Append(l, e)
         ELSE Append(InsertSorted(SubSeq(l, 1, Len(l) - 1), e), l[Len(l)])

\* step 4: the (name, start_bit) entries of one frame among the first k points
RECURSIVE FrameEntries(_, _, _, _, _)
FrameEntries(objs, val, unit, frame, k) ==
    IF k = 0 THEN << >>
    ELSE LET prev == FrameEntries(objs, val, unit, frame, k - 1)
         IN IF InFrame(objs[k], val[k], frame)
            THEN InsertSorted(prev, << objs[k].Name, StartBit(val[k], unit) >>)
            ELSE prev

FrameOrder(objs, val, unit, nframes) ==
    [f \in 0..(nframes - 1) |->
        LET e == FrameEntries(objs, val, unit, f, Len(objs))
        IN [j \in 1..Len(e) |-> e[j][1]]]

\* self.framesummary flattened: the (name, start_bit) entries of frames
\* 0..frame, frame by frame
RECURSIVE SummaryEntries(_, _, _, _)
SummaryEntries(objs, val, unit, frame) ==
    IF frame < 0 THEN << >>
    ELSE SummaryEntries(objs, val, unit, frame - 1)
         \o FrameEntries(objs, val, unit, frame, Len(objs))

\* first_bits: the keys in insertion order, each with the smallest start bit
\* among its entries
RECURSIVE FirstBits(_, _)
FirstBits(flat, k) ==
    IF k = 0 THEN << >>
    ELSE LET prev == FirstBits(flat, k - 1)
             name == flat[k][1]
         IN IF \E j \in 1..Len(prev) : prev[j][1] = name
            THEN prev
            ELSE Append(prev, << name,
                    MinOf({flat[j][2] : j \in {h \in 1..Len(flat) : flat[h][1] = name}}) >>)

\* SortByFirstBit with the keys left in insertion order
RECURSIVE SortByFirstBit_Unsorted(_, _)
SortByFirstBit_Unsorted(fb, k) ==
    IF k = 0 THEN << >>
    ELSE Append(SortByFirstBit_Unsorted(fb, k - 1), fb[k])

\* sorted(first_bits, key = first_bits[x]): a stable sort of the keys
RECURSIVE SortByFirstBit(_, _)
SortByFirstBit(fb, k) ==
    IF k = 0 THEN << >>
    ELSE InsertSorted(SortByFirstBit(fb, k - 1), fb[k])

\* step 5: rows in object_order, one column per frame, the start bit where
\* the point occurs and no value elsewhere
FrameSummary(objs, val, unit, nframes) ==
    LET flat  == SummaryEntries(objs, val, unit, nframes - 1)
        fb    == FirstBits(flat, Len(flat))
        order == SortByFirstBit(fb, Len(fb))
    IN [index |-> [r \in 1..Len(order) |-> order[r][1]],
        cells |-> [r \in 1..Len(order) |->
                     [f \in 0..(nframes - 1) |->
                        LET e == FrameEntries(objs, val, unit, f, Len(objs))
                            h == {j \in 1..Len(e) : e[j][1] = order[r][1]}
                        IN IF h = {} THEN None
                           ELSE Some(e[MaxOf(h)][2])]]]

(* solver.Value(var) looks var up by its index in the solution of this     *)
(* solver, whichever model created var                                     *)
RECURSIVE PointValues(_, _)
PointValues(val, k) ==
    IF k = 0 THEN << >>
    ELSE PointValues(val, k - 1)
         \o << val[k].start_unit >>
         \o [j \in 1..Cardinality(DOMAIN val[k].phase_vars) |->
                IF val[k].phase_vars[j - 1] THEN 1 ELSE 0]

\* the solution in variable order: the points' variables, the total_util
\* constant, the end units, max_end
SolutionOf(m, sol) ==
    PointValues(sol.value, Len(sol.value))
    \o << m.total_util >>
    \o [i \in 1..Len(sol.value) |->
           sol.value[i].start_unit
              + (CHOOSE e \in m.end_unit : e[1] = i)[2]]
    \o << sol.max_end >>

\* the variable indices the materializer reads for point o
ReadIndices(o) == Val(o.start_unit)[2] .. (Val(o.start_unit)[2] + o.phase_vars)

\* Value(obj.start_unit) and Value(pv) for every point, read through the
\* variables the points hold now
ReadValues(objs, vec) ==
    [k \in 1..Len(objs) |->
        LET i0 == Val(objs[k].start_unit)[2]
        IN [start_unit |-> vec[i0 + 1],
            phase_vars |-> [s \in 0..(objs[k].phase_vars - 1) |->
                               vec[i0 + 1 + s + 1] # 0]]]

\* step 3 as far as it gets when point k does not fit the grid: the points
\* before k, and the cells of k in its first frame down to the last row
PartialMemoryMap(objs, val, unit, fsb, nframes, k) ==
    LET prev == MemoryMap(objs, val, unit, fsb, nframes, k - 1)
        sb   == StartBit(val[k], unit)
        f0   == MinOf({g \in 0..(nframes - 1) : InFrame(objs[k], val[k], g)})
        new  == {<< b, f0 >> : b \in sb..(fsb - 1)}
    IN [prev EXCEPT !.cells =
          [c \in (DOMAIN prev.cells) \cup new |->
             IF c \in new THEN objs[k].Name ELSE prev.cells[c]]]

ToDataframes ==
    /\ pc = "packed"
    /\ LET vec == SolutionOf(model, solver)
           val == ReadValues(objects, vec)
           \* points whose phase booleans all read false: next() finds nothing
           nophase == {k \in 1..Len(objects) :
                         /\ objects[k].phase_vars > 0
                         /\ \A s \in DOMAIN val[k].phase_vars : ~val[k].phase_vars[s]}
           \* points that occur in some frame and end past the last row
           overflow == {k \in 1..Len(objects) :
                          /\ StartBit(val[k], UNIT) + objects[k].Size > FRAME_SIZE_BITS
                          /\ \E g \in 0..(NUM_FRAMES - 1) : InFrame(objects[k], val[k], g)}
       IN IF \E k \in 1..Len(objects) : \E i \in ReadIndices(objects[k]) : i >= Len(vec)
          THEN \* the index is not in the solution
               /\ pc' = "failed" /\ error' = "IndexError"
               /\ UNCHANGED << schedule_df, memorymap_df, frameorder_df, framesummary_df >>
          ELSE IF nophase # {}
          THEN /\ pc' = "failed" /\ error' = "StopIteration"
               /\ UNCHANGED << schedule_df, memorymap_df, frameorder_df, framesummary_df >>
          ELSE IF overflow # {}
          THEN \* memorymap_df.iat[b, frame] with b past the last row
               /\ pc' = "failed" /\ error' = "IndexError"
               /\ schedule_df' = Schedule(objects, val, NUM_FRAMES)
               /\ memorymap_df' = PartialMemoryMap(objects, val, UNIT, FRAME_SIZE_BITS,
                                                   NUM_FRAMES, MinOf(overflow))
               /\ UNCHANGED << frameorder_df, framesummary_df >>
          ELSE /\ pc' = "materialized" /\ error' = error
               /\ schedule_df' = Schedule(objects, val, NUM_FRAMES)
               /\ memorymap_df' = MemoryMap(objects, val, UNIT, FRAME_SIZE_BITS,
                                            NUM_FRAMES, Len(objects))
               /\ frameorder_df' = FrameOrder(objects, val, UNIT, NUM_FRAMES)
               /\ framesummary_df' = FrameSummary(objects, val, UNIT, NUM_FRAMES)
    /\ UNCHANGED << args, previous, self, other, objects, groups, FRAME_SIZE_BITS,
                    NUM_FRAMES, UNIT, CAP, model, solver, status1, status2, written,
                    OUTPUT_PATH, files >>

(* -------------------------- _export_to_excel --------------------------- *)
ExportToExcel ==
    /\ pc = "materialized"
    /\ written' = TRUE
    /\ files' = files \cup {OUTPUT_PATH}
    /\ pc' = "exported"
    /\ UNCHANGED << OUTPUT_PATH, args, previous, self, other, objects, groups, FRAME_SIZE_BITS, NUM_FRAMES, UNIT, CAP,
                    model, solver, status1, status2, error,
                    schedule_df, memorymap_df, frameorder_df, framesummary_df >>

(* ------------------------------ main.py -------------------------------- *)
\* the program is run a second time on the same input: the tables of the
\* first run are kept aside and a new packer starts from nothing
Rerun ==
    /\ pc = "exported"
    /\ previous = << >>
    /\ previous' = [schedule_df     |-> schedule_df,
                    memorymap_df    |-> memorymap_df,
                    frameorder_df   |-> frameorder_df,
                    framesummary_df |-> framesummary_df]
    /\ pc' = "new"
    /\ objects' = << >>
    /\ groups' = << >>
    /\ FRAME_SIZE_BITS' = 0
    /\ NUM_FRAMES' = 0
    /\ UNIT' = 0
    /\ CAP' = 0
    /\ model' = EmptyModel
    /\ solver' = [calls |-> 0, value |-> << >>, max_end |-> 0]
    /\ status1' = "none"
    /\ status2' = "none"
    /\ error' = "none"
    /\ schedule_df' = << >>
    /\ memorymap_df' = << >>
    /\ frameorder_df' = << >>
    /\ framesummary_df' = << >>
    /\ written' = FALSE
    /\ OUTPUT_PATH' = << >>
    /\ self' = self + 1
    /\ UNCHANGED << args, other, files >>

\* the caller turns to its other packer, between two method calls
Switch ==
    /\ other # << >>
    /\ pc \in {"new", "constructed", "packed", "exported", "failed"}
    /\ other' = [pc |-> pc, args |-> args, objects |-> objects, groups |-> groups,
                 FRAME_SIZE_BITS |-> FRAME_SIZE_BITS, NUM_FRAMES |-> NUM_FRAMES,
                 UNIT |-> UNIT, CAP |-> CAP, model |-> model, solver |-> solver,
                 status1 |-> status1, status2 |-> status2, error |-> error,
                 schedule_df |-> schedule_df, memorymap_df |-> memorymap_df,
                 frameorder_df |-> frameorder_df,
                 framesummary_df |-> framesummary_df, written |-> written,
                 OUTPUT_PATH |-> OUTPUT_PATH,
                 self |-> self]
    /\ pc' = other.pc
    /\ args' = other.args
    /\ objects' = other.objects
    /\ groups' = other.groups
    /\ FRAME_SIZE_BITS' = other.FRAME_SIZE_BITS
    /\ NUM_FRAMES' = other.NUM_FRAMES
    /\ UNIT' = other.UNIT
    /\ CAP' = other.CAP
    /\ model' = other.model
    /\ solver' = other.solver
    /\ status1' = other.status1
    /\ status2' = other.status2
    /\ error' = other.error
    /\ schedule_df' = other.schedule_df
    /\ memorymap_df' = other.memorymap_df
    /\ frameorder_df' = other.frameorder_df
    /\ framesummary_df' = other.framesummary_df
    /\ written' = other.written
    /\ OUTPUT_PATH' = other.OUTPUT_PATH
    /\ self' = other.self
    /\ UNCHANGED << previous, files >>

Next ==
    \/ New
    \/ BuildModel
    \/ Stage1
    \/ Stage2
    \/ ToDataframes
    \/ ExportToExcel

Spec == Init /\ [][Next]_vars

GroupSpec == InitGroup /\ [][Next]_vars

ValidSpec == InitValid /\ [][Next]_vars

S2Spec == InitS2 /\ [][Next]_vars

S3Spec == InitS3 /\ [][Next]_vars

NextRerun == Next \/ Rerun

RerunSpec == InitRerun /\ [][NextRerun]_vars

PropagationSpec == InitPropagation /\ [][NextRerun]_vars

PathSpec == InitPaths /\ [][NextRerun]_vars

NextTwo == Next \/ Switch

TwoSpec == InitTwo /\ [][NextTwo]_vars

(* ======================= properties of the packer ====================== *)
Materialized == pc \in {"materialized", "exported"}
Frames       == 0..(NUM_FRAMES - 1)
Objs         == 1..Len(objects)

\* the Schedule table shows point i in frame f
Shown(i, f) == schedule_df[i][f] = objects[i].Name
\* start_bit(o) = value(start_unit_o) * UNIT, read from the solver
SolvedBit(i) == solver.value[i].start_unit * UNIT
\* the MemoryMap cells of column f that carry the name of point i
Cells(i, f) ==
    {b \in 0..(memorymap_df.index - 1) :
        /\ << b, f >> \in DOMAIN memorymap_df.cells
        /\ memorymap_df.cells[<< b, f >>] = objects[i].Name}

\* test_FormatPacker.ExpectedFrequency
ExpectedFrequency(point, total_frames) ==
    LET start_frame == IF point.Start_Frame # None THEN Val(point.Start_Frame) ELSE 0
    IN IF start_frame >= total_frames THEN 0
       ELSE 1 + ((total_frames - 1 - start_frame) \div point.Period)

ShownCount(i) == Cardinality({f \in Frames : Shown(i, f)})

\* C1: after a successful pack and materialization, in every frame the bit
\* intervals [start_bit, start_bit + size) of the points that occur there are
\* pairwise disjoint: no MemoryMap cell is claimed by two points.
C1_NoOverlap ==
    Materialized =>
        \A f \in Frames : \A i, j \in Objs :
            (i # j /\ Shown(i, f) /\ Shown(j, f)) =>
                \/ SolvedBit(i) + objects[i].Size <= SolvedBit(j)
                \/ SolvedBit(j) + objects[j].Size <= SolvedBit(i)

\* two points share a frame of the materialized schedule
C1_Witness ==
    /\ Materialized
    /\ \E f \in Frames : \E i, j \in Objs : i # j /\ Shown(i, f) /\ Shown(j, f)

\* C2 (as stated): after a successful pack every point, pinned or not and for
\* any positive period, is shown in exactly ExpectedFrequency frames.
C2_Frequency_AnyPeriod ==
    Materialized =>
        \A i \in Objs : ShownCount(i) = ExpectedFrequency(objects[i], NUM_FRAMES)

\* C2 (amended): the count equals ExpectedFrequency for every point whose
\* start frame is set and not negative, and for every point without a start
\* frame whose period divides num_frames.
C2_Frequency ==
    Materialized =>
        \A i \in Objs :
            (IF objects[i].Start_Frame # None
             THEN Val(objects[i].Start_Frame) >= 0
             ELSE NUM_FRAMES % objects[i].Period = 0)
            => ShownCount(i) = ExpectedFrequency(objects[i], NUM_FRAMES)

\* an unpinned point with a period > 1 that divides num_frames sits in a
\* phase other than 0, next to a point pinned to a start frame > 0
C2_Witness ==
    /\ Materialized
    /\ \E i \in Objs :
          /\ objects[i].Start_Frame = None
          /\ objects[i].Period > 1
          /\ NUM_FRAMES % objects[i].Period = 0
          /\ ~Shown(i, 0)
    /\ \E j \in Objs :
          /\ objects[j].Start_Frame # None
          /\ Val(objects[j].Start_Frame) > 0
          /\ ShownCount(j) > 0

\* C3: after a successful pack a point with a start frame is shown in frame
\* f iff f >= start_frame and (f - start_frame) mod period = 0.
C3_StartFrame ==
    Materialized =>
        \A i \in Objs : objects[i].Start_Frame # None =>
            \A f \in Frames :
                Shown(i, f) <=>
                    /\ f >= Val(objects[i].Start_Frame)
                    /\ (f - Val(objects[i].Start_Frame)) % objects[i].Period = 0

\* a point pinned to start frame 1 with period 2 has been materialized
C3_Witness ==
    /\ Materialized
    /\ \E i \in Objs :
          /\ objects[i].Start_Frame = Some(1)
          /\ objects[i].Period = 2
          /\ Shown(i, 1)
          /\ ~Shown(i, 0)

\* C4: after a successful pack a point with an offset starts, in every frame
\* where it occurs, at the MemoryMap bit equal to its offset in bits.
C4_Offset ==
    Materialized =>
        \A i \in Objs : objects[i].Offset # None =>
            \A f \in Frames : Shown(i, f) =>
                /\ Cells(i, f) # {}
                /\ MinOf(Cells(i, f)) = Val(objects[i].Offset)
                /\ SolvedBit(i) = Val(objects[i].Offset)

\* a point pinned to byte offset 1 occupies bit 8 of some frame
C4_Witness ==
    /\ Materialized
    /\ \E i \in Objs : \E f \in Frames :
          /\ objects[i].Offset = Some(8)
          /\ Shown(i, f)
          /\ 8 \in Cells(i, f)

\* position of point i in the FrameOrder list of frame f
OrderPos(i, f) == CHOOSE j \in DOMAIN frameorder_df[f] : frameorder_df[f][j] = objects[i].Name

\* C5: after a successful pack, in every frame either all members of a group
\* occur or none does; where they occur, each member starts at the previous
\* member's start bit plus the previous member's size, and FrameOrder lists
\* the members in group order.
C5_GroupCohesion ==
    Materialized =>
        \A g \in DOMAIN groups : \A f \in Frames :
            LET grp == groups[g] IN
            /\ (\A k \in DOMAIN grp : Shown(grp[k], f))
               \/ (\A k \in DOMAIN grp : ~Shown(grp[k], f))
            /\ (\A k \in DOMAIN grp : Shown(grp[k], f)) =>
                 \A k \in 1..(Len(grp) - 1) :
                    /\ Cells(grp[k], f) # {} /\ Cells(grp[k + 1], f) # {}
                    /\ MinOf(Cells(grp[k + 1], f)) =
                          MinOf(Cells(grp[k], f)) + objects[grp[k]].Size
                    /\ OrderPos(grp[k], f) < OrderPos(grp[k + 1], f)

\* a group with members of different sizes shares a frame with a point that
\* comes later in the list but lower in the frame
C5_Witness ==
    /\ Materialized
    /\ \E g \in DOMAIN groups : \E f \in Frames : \E i \in Objs :
          /\ \A k \in DOMAIN groups[g] : Shown(groups[g][k], f) /\ groups[g][k] < i
          /\ objects[groups[g][1]].Size # objects[groups[g][2]].Size
          /\ Shown(i, f)
          /\ OrderPos(i, f) < OrderPos(groups[g][1], f)

\* C6: after a successful pack, column f of the MemoryMap holds exactly
\* size_o contiguous cells labelled o if o occurs in f, and none otherwise.
C6_SizeFidelity ==
    Materialized =>
        \A i \in Objs : \A f \in Frames :
            IF Shown(i, f)
            THEN /\ Cardinality(Cells(i, f)) = objects[i].Size
                 /\ Cells(i, f) = MinOf(Cells(i, f)) .. (MinOf(Cells(i, f)) + objects[i].Size - 1)
            ELSE Cells(i, f) = {}

\* a point occurs in one frame next to another point and is absent from
\* another frame
C6_Witness ==
    /\ Materialized
    /\ \E i, j \in Objs : \E f, h \in Frames :
          /\ i # j
          /\ Shown(i, f) /\ Shown(j, f)
          /\ ~Shown(i, h)

(* ----- the packing problem, stated on the points and not on the model ---- *)
Units(i)  == objects[i].Size \div UNIT
Phased(i) == objects[i].Start_Frame = None /\ objects[i].Period > 1

\* start positions within the domain bounds, one phase per phased point
RECURSIVE Placements(_)
Placements(k) ==
    IF k = 0 THEN {<< >>}
    ELSE {Append(pl, [start |-> st, phase |-> ph]) :
             pl \in Placements(k - 1),
             st \in 0..(CAP - Units(k)),
             ph \in IF Phased(k) THEN 0..(objects[k].Period - 1) ELSE {0}}

Occupies(pl, i, f) ==
    IF Phased(i)
    THEN f % objects[i].Period = pl[i].phase
    ELSE LET sf == IF objects[i].Start_Frame = None THEN 0
                   ELSE Val(objects[i].Start_Frame)
         IN f >= sf /\ (f - sf) % objects[i].Period = 0

\* offset pins, group phase equality and contiguity, per-frame no-overlap
Feasible(pl) ==
    /\ \A i \in Objs : objects[i].Offset # None =>
          pl[i].start * UNIT = Val(objects[i].Offset)
    /\ \A g \in DOMAIN groups : \A k \in 1..(Len(groups[g]) - 1) :
          LET a == groups[g][k]
              b == groups[g][k + 1]
          IN /\ (Phased(a) /\ Phased(b)) => pl[a].phase = pl[b].phase
             /\ pl[b].start = pl[a].start + Units(a)
    /\ \A f \in Frames : \A i, j \in Objs :
          (i # j /\ Occupies(pl, i, f) /\ Occupies(pl, j, f)) =>
             \/ pl[i].start + Units(i) <= pl[j].start
             \/ pl[j].start + Units(j) <= pl[i].start

FeasiblePlacements == {pl \in Placements(Len(objects)) : Feasible(pl)}
Satisfiable == \E pl \in Placements(Len(objects)) : Feasible(pl)
Peak(pl) == MaxOf({pl[i].start + Units(i) : i \in Objs})

Packed == pc \in {"packed", "materialized", "exported"}

\* C7: when stage 2 ends proven optimal, the reported max_end is the minimum,
\* over all placements that satisfy the constraints, of the largest end
\* position start + size: some feasible placement peaks there and none
\* peaks lower.
C7_MinimalMaxEnd ==
    (Packed /\ status2 = "OPTIMAL") =>
        /\ \E pl \in Placements(Len(objects)) :
              Peak(pl) = solver.max_end /\ Feasible(pl)
        /\ \A pl \in Placements(Len(objects)) :
              Peak(pl) < solver.max_end => ~Feasible(pl)

\* stage 2 is proven optimal for an input whose feasible placements differ in
\* their peak, one of them pinned by an offset
C7_Witness ==
    /\ Packed /\ status2 = "OPTIMAL"
    /\ Len(objects) > 1
    /\ \E i \in Objs : objects[i].Offset # None
    /\ \E pl \in FeasiblePlacements : Peak(pl) > solver.max_end

\* _validate_objects: the points that break the start-frame or offset rule
InvalidObjects(objs, nframes, fsb) ==
    {i \in 1..Len(objs) :
        \/ /\ objs[i].Start_Frame # None
           /\ (Val(objs[i].Start_Frame) < 0 \/ Val(objs[i].Start_Frame) > nframes - 1)
        \/ /\ objs[i].Offset # None
           /\ (Val(objs[i].Offset) < 0 \/ Val(objs[i].Offset) + objs[i].Size > fsb)}

\* C8: if a point has a start frame outside [0, num_frames) or an offset that
\* is negative or overflows the frame, running the packer fails with a
\* validation error before any solver call.
C8_ValidationError ==
    (pc \notin {"new", "constructed", "built"}
        /\ InvalidObjects(objects, NUM_FRAMES, FRAME_SIZE_BITS) # {})
    => (pc = "failed" /\ error = "ValueError" /\ solver.calls = 0)

\* C9: when the constraints are unsatisfiable, or stage 1 returns a status
\* other than optimal or feasible, pack() raises the stage-1 packing error,
\* stage 2 is never run, no result table is produced and no workbook written.
C9_Stage1Failure ==
    (pc \notin {"new", "constructed", "built"}
        /\ (status1 \notin {"OPTIMAL", "FEASIBLE"} \/ ~Satisfiable))
    => /\ pc = "failed"
       /\ error = "Stage1"
       /\ status2 = "none"
       /\ solver.calls = 1
       /\ schedule_df = << >> /\ memorymap_df = << >> /\ frameorder_df = << >>
       /\ ~written

\* two points of period 1, both pinned at offset 0: stage 1 is infeasible
C9_Witness ==
    /\ pc = "failed" /\ error = "Stage1" /\ status1 = "INFEASIBLE"
    /\ Len(objects) = 2
    /\ \A i \in Objs : objects[i].Period = 1 /\ objects[i].Offset = Some(0)
                       /\ objects[i].Start_Frame = None

\* C10: every point whose start frame is unset or below num_frames occurs in
\* at least num_frames div period frames, and total_util equals the number of
\* bits occupied over the whole schedule.
C10_UtilIsOccupancy ==
    Materialized =>
        /\ \A i \in Objs :
              (objects[i].Start_Frame = None
                  \/ Val(objects[i].Start_Frame) < NUM_FRAMES)
              => ShownCount(i) >= NUM_FRAMES \div objects[i].Period
        /\ model.total_util =
              SumSeq([i \in Objs |-> objects[i].Size * ShownCount(i)])

BothOptimal == status1 = "OPTIMAL" /\ status2 = "OPTIMAL"

\* C11 (as stated): in scenario S2 with both stages proven optimal the pack
\* succeeds, A and B are disjoint in every frame they share, and max_end is
\* 32 bits.
C11_S2_MaxEnd32 ==
    BothOptimal =>
        /\ Packed /\ error = "none"
        /\ solver.max_end * UNIT = 32
        /\ Materialized =>
              \A f \in Frames : (Shown(1, f) /\ Shown(2, f)) =>
                 \/ SolvedBit(1) + objects[1].Size <= SolvedBit(2)
                 \/ SolvedBit(2) + objects[2].Size <= SolvedBit(1)

\* C11 (amended): in scenario S2 with both stages proven optimal the pack
\* succeeds, A and B are disjoint in every frame they share, and max_end is
\* one unit, that is 16 bits.
C11_S2 ==
    BothOptimal =>
        /\ Packed /\ error = "none"
        /\ solver.max_end = 1 /\ UNIT = 16
        /\ Materialized =>
              \A f \in Frames : (Shown(1, f) /\ Shown(2, f)) =>
                 \/ SolvedBit(1) + objects[1].Size <= SolvedBit(2)
                 \/ SolvedBit(2) + objects[2].Size <= SolvedBit(1)

\* S2 has been packed with both stages proven optimal and materialized, B in
\* a frame other than the first
C11_Witness ==
    /\ Materialized /\ BothOptimal
    /\ Len(objects) = 2 /\ objects[2].Period = 4 /\ NUM_FRAMES = 4
    /\ ~Shown(2, 0)

\* C12 (as stated): in scenario S3 every successful pack gives start_bit(A)
\* = 64, and A occurs in exactly one frame, which is frame 0.
C12_S3_Frame0 ==
    /\ Packed => SolvedBit(1) = 64
    /\ Materialized => \A f \in Frames : Shown(1, f) <=> f = 0

\* C12 (amended): in scenario S3 every successful pack gives start_bit(A) =
\* 64, and A occurs in exactly one frame, the one of the phase the solver
\* chose.
C12_S3 ==
    /\ Packed => SolvedBit(1) = 64
    /\ Materialized =>
          /\ ShownCount(1) = 1
          /\ \A f \in Frames :
                Shown(1, f) <=> f = ChosenPhase(solver.value[1].phase_vars)

\* S3 has been materialized with A in a frame other than frame 0
C12_Witness ==
    /\ Materialized
    /\ NUM_FRAMES = 32 /\ objects[1].Offset = Some(64)
    /\ ~Shown(1, 0)

\* C13: a second run on the same input materializes the same Schedule,
\* MemoryMap, FrameOrder and FrameSummary tables as the first run.
C13_Determinism ==
    (Materialized /\ previous # << >>) =>
        /\ schedule_df = previous.schedule_df
        /\ memorymap_df = previous.memorymap_df
        /\ frameorder_df = previous.frameorder_df
        /\ framesummary_df = previous.framesummary_df

\* the members of the caller's group, and what the group's values are
GroupMembers == args.objects[1].members
GroupOffset  == IF args.offset = None THEN None ELSE Some(8 * Val(args.offset))
HasGroupPeriodAndStart(o) ==
    o.Period = args.objects[1].Period /\ o.Start_Frame = args.objects[1].Start_Frame
\* the first member carries the group's offset, the others none
FirstOnly(ms) ==
    \A k \in 1..Len(ms) :
        /\ HasGroupPeriodAndStart(ms[k])
        /\ ms[k].Offset = IF k = 1 THEN GroupOffset ELSE None

\* C14 (as stated): once the group is constructed, and still after packer
\* construction, every member has the group's period and start frame, the
\* first member the group's offset (8 times the byte offset, once) and the
\* others no offset; packer construction after group construction, and a
\* second packer construction, leave the points as they are.
C14_Propagation_Idempotent ==
    /\ [](FirstOnly(GroupMembers))
    /\ [](pc # "new" => FirstOnly(objects))
    /\ [][pc = "new" =>
            \A k \in 1..Len(GroupMembers) :
               /\ GroupMembers[k].Period' = GroupMembers[k].Period
               /\ GroupMembers[k].Start_Frame' = GroupMembers[k].Start_Frame
               /\ GroupMembers[k].Offset' = GroupMembers[k].Offset]_vars

\* C14 (amended): group construction gives every member the group's period,
\* start frame and offset (8 times the byte offset, once); packer
\* construction keeps the first member's offset and blanks the others'; a
\* second packer construction leaves the points as they are.
C14_Propagation ==
    /\ []((pc = "new" /\ previous = << >>) =>
            \A k \in 1..Len(GroupMembers) :
               /\ HasGroupPeriodAndStart(GroupMembers[k])
               /\ GroupMembers[k].Offset = GroupOffset)
    /\ [](pc # "new" => (FirstOnly(GroupMembers) /\ FirstOnly(objects)))
    /\ [][(pc = "new" /\ previous # << >>) =>
            \A k \in 1..Len(GroupMembers) :
               /\ GroupMembers[k].Period' = GroupMembers[k].Period
               /\ GroupMembers[k].Start_Frame' = GroupMembers[k].Start_Frame
               /\ GroupMembers[k].Offset' = GroupMembers[k].Offset]_vars

\* a second packer has been constructed from a group with byte offset 1
C14_Witness ==
    /\ pc = "constructed" /\ previous # << >>
    /\ args.offset = Some(1)
    /\ objects[1].Offset = Some(8) /\ objects[2].Offset = None

\* d divides every size, every defined offset and the frame
DividesAll(d) ==
    /\ \A i \in Objs :
          /\ objects[i].Size % d = 0
          /\ objects[i].Offset # None => Abs(Val(objects[i].Offset)) % d = 0
    /\ FRAME_SIZE_BITS % d = 0

\* C15: after packer construction UNIT is the greatest common divisor of the
\* sizes, the defined offsets and frame_size_bits, and CAP * UNIT =
\* frame_size_bits; for the empty list UNIT = frame_size_bits, CAP = 1, and
\* pack() ends with an optimal or feasible solution and no error, unless the
\* solver gives up on its time limit.
C15_UnitAndEmptyPack ==
    pc # "new" =>
        /\ DividesAll(UNIT)
        /\ \A d \in 1..FRAME_SIZE_BITS : DividesAll(d) => d <= UNIT
        /\ CAP * UNIT = FRAME_SIZE_BITS
        /\ objects = << >> =>
              /\ UNIT = FRAME_SIZE_BITS /\ CAP = 1
              /\ (status1 \notin {"none", "UNKNOWN"}) =>
                    (status1 \in {"OPTIMAL", "FEASIBLE"} /\ error # "Stage1")

(* ------ the packing problem in bits: start positions are any integers ---- *)
RECURSIVE BitPlacements(_)
BitPlacements(k) ==
    IF k = 0 THEN {<< >>}
    ELSE {Append(pl, [start |-> st, phase |-> ph]) :
             pl \in BitPlacements(k - 1),
             st \in 0..(FRAME_SIZE_BITS - objects[k].Size),
             ph \in IF Phased(k) THEN 0..(objects[k].Period - 1) ELSE {0}}

\* offset pins, group phase equality and contiguity, per-frame no-overlap
BitFeasible(pl) ==
    /\ \A i \in Objs : objects[i].Offset # None =>
          pl[i].start = Val(objects[i].Offset)
    /\ \A g \in DOMAIN groups : \A k \in 1..(Len(groups[g]) - 1) :
          LET a == groups[g][k]
              b == groups[g][k + 1]
          IN /\ (Phased(a) /\ Phased(b)) => pl[a].phase = pl[b].phase
             /\ pl[b].start = pl[a].start + objects[a].Size
    /\ \A f \in Frames : \A i, j \in Objs :
          (i # j /\ Occupies(pl, i, f) /\ Occupies(pl, j, f)) =>
             \/ pl[i].start + objects[i].Size <= pl[j].start
             \/ pl[j].start + objects[j].Size <= pl[i].start

BitPeak(pl) == MaxOf({pl[i].start + objects[i].Size : i \in Objs})
OnUnits(pl) == \A i \in Objs : pl[i].start % UNIT = 0

\* C16: a feasible placement in bits exists iff one exists on multiples of
\* UNIT, iff the unit-scaled model has a solution; and the smallest peak end
\* in bits is UNIT times the smallest max_end of the unit-scaled model.
C16_UnitScaling ==
    (pc = "built" /\ objects # << >>) =>
        LET B == {pl \in BitPlacements(Len(objects)) : BitFeasible(pl)}
            S == Solutions(model)
        IN /\ (B # {}) <=> (\E pl \in B : OnUnits(pl))
           /\ (B # {}) <=> (S # {})
           /\ B # {} =>
                 MinOf({BitPeak(pl) : pl \in B})
                    = UNIT * MinOf({MaxEnd(model, a) : a \in S})

\* the model of two points is built, and some feasible placement in bits is
\* not on multiples of UNIT and peaks above the minimum
C16_Witness ==
    /\ pc = "built" /\ Len(objects) = 2 /\ UNIT > 1
    /\ \E pl \in BitPlacements(Len(objects)) :
          /\ BitFeasible(pl)
          /\ ~OnUnits(pl)
          /\ \E a \in Solutions(model) : BitPeak(pl) > UNIT * MaxEnd(model, a)

\* C17: with a second packer at work in any interleaving of method calls,
\* the tables a packer materializes are those of its own solution, and the
\* variables it reads while materializing belong to its own model.
C17_Independence ==
    /\ [](Materialized =>
            /\ schedule_df = Schedule(objects, solver.value, NUM_FRAMES)
            /\ memorymap_df = MemoryMap(objects, solver.value, UNIT,
                                        FRAME_SIZE_BITS, NUM_FRAMES, Len(objects))
            /\ frameorder_df = FrameOrder(objects, solver.value, UNIT, NUM_FRAMES)
            /\ framesummary_df = FrameSummary(objects, solver.value, UNIT, NUM_FRAMES))
    /\ [][(pc = "packed" /\ pc' # "packed" /\ self' = self) =>
            \A k \in 1..Len(objects) : Val(objects[k].start_unit)[1] = self]_vars

\* the point behind row r of the FrameSummary table
RowPoint(r) ==
    CHOOSE i \in 1..Len(objects) : objects[i].Name = framesummary_df.index[r]

FramesOf(i) ==
    {f \in 0..(NUM_FRAMES - 1) : InFrame(objects[i], solver.value[i], f)}

Occurring == {i \in 1..Len(objects) : FramesOf(i) # {}}

FirstFrame(i) == MinOf(FramesOf(i))

RowBit(i) == StartBit(solver.value[i], UNIT)

\* every occurring point has exactly one row and every row is such a point
RowsAreOccurringPoints ==
    /\ Len(framesummary_df.index) = Cardinality(Occurring)
    /\ \A i \in Occurring :
          \E r \in 1..Len(framesummary_df.index) :
             framesummary_df.index[r] = objects[i].Name

\* cell (o, f) holds the start bit of o where o occurs in f and nothing elsewhere
SummaryCells ==
    \A r \in 1..Len(framesummary_df.index) : \A f \in 0..(NUM_FRAMES - 1) :
       framesummary_df.cells[r][f] =
          IF f \in FramesOf(RowPoint(r)) THEN Some(RowBit(RowPoint(r))) ELSE None

\* C18 as stated: the rows of FrameSummary are ordered by the frame a point
\* first appears in and, within the same first frame, by ascending start
\* bit; a cell holds the start bit where the point occurs and is empty
\* elsewhere.
C18_FirstFrameThenBit ==
    Materialized =>
       /\ RowsAreOccurringPoints
       /\ \A r1 \in 1..Len(framesummary_df.index) :
          \A r2 \in (r1 + 1)..Len(framesummary_df.index) :
             \/ FirstFrame(RowPoint(r1)) < FirstFrame(RowPoint(r2))
             \/ /\ FirstFrame(RowPoint(r1)) = FirstFrame(RowPoint(r2))
                /\ RowBit(RowPoint(r1)) <= RowBit(RowPoint(r2))
       /\ SummaryCells

\* C18 amended: the rows of FrameSummary are ordered by ascending start bit
\* and, among points with the same start bit, by the frame a point first
\* appears in; a cell holds the start bit where the point occurs and is
\* empty elsewhere.
C18_BitThenFirstFrame ==
    Materialized =>
       /\ RowsAreOccurringPoints
       /\ \A r1 \in 1..Len(framesummary_df.index) :
          \A r2 \in (r1 + 1)..Len(framesummary_df.index) :
             \/ RowBit(RowPoint(r1)) < RowBit(RowPoint(r2))
             \/ /\ RowBit(RowPoint(r1)) = RowBit(RowPoint(r2))
                /\ FirstFrame(RowPoint(r1)) <= FirstFrame(RowPoint(r2))
       /\ SummaryCells

\* a table whose first row is a point that first appears later than the
\* point of a row below it, and a table with two points on the same bit
C18_Witness ==
    /\ Materialized
    /\ \E r1 \in 1..Len(framesummary_df.index) :
       \E r2 \in (r1 + 1)..Len(framesummary_df.index) :
          /\ FirstFrame(RowPoint(r1)) > FirstFrame(RowPoint(r2))
          /\ RowBit(RowPoint(r1)) < RowBit(RowPoint(r2))

\* C19: when the constructor is done OUTPUT_PATH does not exist; it is the
\* requested path if that is free and otherwise the first free name of the
\* sequence stem_0, stem_1, ... built from the requested stem.
C19_OutputPath ==
    pc = "constructed" =>
       LET r == RequestedPath(args)
       IN /\ OUTPUT_PATH \notin files
          /\ r \notin files => OUTPUT_PATH = r
          /\ r \in files =>
                \E i \in 0..Cardinality(files) :
                   /\ OUTPUT_PATH = Numbered(r, i)
                   /\ \A j \in 0..(i - 1) : Numbered(r, j) \in files

Accepted == {"OPTIMAL", "FEASIBLE"}

\* C20: pack() builds the model, then solves stage 1 (maximize total_util);
\* only if stage 1 returned optimal or feasible are the hints set to the
\* stage-1 values, total_util = U* added and stage 2 (minimize max_end)
\* solved; a feasible status raises in neither stage and any other status
\* of stage 2 raises the stage-2 packing error.
C20_PackOrder ==
    /\ [](pc \in {"new", "constructed"} =>
             model = EmptyModel /\ solver.calls = 0)
    /\ [](pc = "built" =>
             /\ model.objective = "none" /\ model.hints = << >>
             /\ model.fixed_util = None
             /\ solver.calls = 0 /\ status1 = "none" /\ status2 = "none")
    /\ [][pc = "built" =>
            /\ model'.objective = "max_total_util"
            /\ solver'.calls = 1
            /\ status2' = "none"
            /\ status1' \in Accepted =>
                  /\ pc' = "stage2"
                  /\ error' = "none"
                  /\ model'.hints = solver'.value
                  /\ Len(model'.hints) = Len(objects)
                  /\ model'.fixed_util = Some(model.total_util)
            /\ status1' \notin Accepted =>
                  /\ pc' = "failed"
                  /\ model'.hints = << >>
                  /\ model'.fixed_util = None]_vars
    /\ [][pc = "stage2" =>
            /\ model' = [model EXCEPT !.objective = "min_max_end"]
            /\ solver'.calls = 2
            /\ status1' = status1
            /\ status2' \in Accepted => pc' = "packed" /\ error' = "none"
            /\ status2' \notin Accepted => pc' = "failed" /\ error' = "Stage2"]_vars
    /\ [](status2 # "none" =>
             status1 \in Accepted /\ model.fixed_util = Some(model.total_util))
    /\ []((status1 = "FEASIBLE" => error # "Stage1")
          /\ (status2 = "FEASIBLE" => error = "none" /\ Packed))

\* both stages ended feasible but not proven optimal for two points, one
\* of them with a phase to choose, and pack() returned
C20_Witness ==
    /\ pc = "packed"
    /\ status1 = "FEASIBLE" /\ status2 = "FEASIBLE"
    /\ Len(objects) = 2
    /\ \E i \in 1..Len(objects) : objects[i].phase_vars > 0
    /\ model.hints # solver.value

\* C21: freezing total_util removes no solution: every assignment that
\* satisfies the stage-1 constraints satisfies the model of stage 2, which is
\* therefore satisfiable whenever stage 1 found a solution, and the stage-2
\* packing error comes with the status unknown only.
C21_FreezeKeepsSolutions ==
    /\ pc = "stage2" =>
          /\ \A a \in Solutions([model EXCEPT !.fixed_util = None]) :
                Satisfies(model, a)
          /\ Satisfies(model, solver.value)
    /\ error = "Stage2" =>
          /\ status2 = "UNKNOWN"
          /\ Solutions(model) # {}

\* stage 2 gave up on a model of two points that has several solutions
C21_Witness ==
    /\ pc = "failed" /\ error = "Stage2"
    /\ model.fixed_util # None
    /\ Len(objects) = 2
    /\ Cardinality(Solutions(model)) > 1

\* the model builder put an interval of point i into the no-overlap set of
\* frame f that is present under the solved assignment
PresentInModel(i, f) ==
    \E x \in model.no_overlap[f] : x.obj = i /\ Present(solver.value, x)

\* the FrameOrder table lists point i in frame f
Listed(i, f) ==
    \E j \in DOMAIN frameorder_df[f] : frameorder_df[f][j] = objects[i].Name

\* C22: the materializer reports a point in a frame (in Schedule, MemoryMap
\* and FrameOrder) iff the no-overlap set of that frame holds an interval of
\* the point that is present under the solved assignment; an unpinned point
\* with period > 1 has exactly one true phase boolean.
C22_Occupancy ==
    Materialized =>
        \A i \in Objs :
           /\ \A f \in Frames :
                 /\ Shown(i, f) <=> PresentInModel(i, f)
                 /\ Listed(i, f) <=> PresentInModel(i, f)
                 /\ (Cells(i, f) # {}) <=> PresentInModel(i, f)
           /\ (objects[i].Start_Frame = None /\ objects[i].Period > 1) =>
                 /\ DOMAIN solver.value[i].phase_vars = 0..(objects[i].Period - 1)
                 /\ Cardinality({s \in DOMAIN solver.value[i].phase_vars :
                                    solver.value[i].phase_vars[s]}) = 1

\* materialized: a point whose chosen phase is 1 next to a point that is in
\* every frame
C22_Witness ==
    /\ Materialized
    /\ \E i \in Objs, j \in Objs :
          /\ objects[i].phase_vars > 0
          /\ solver.value[i].phase_vars[1]
          /\ Shown(i, 1) /\ ~Shown(i, 0)
          /\ PresentInModel(i, 1) /\ ~PresentInModel(i, 0)
          /\ objects[j].Period = 1
          /\ Shown(j, 0) /\ Shown(j, 1)

\* the offsets given, 0 among them
GivenOffsets(objs) ==
    {Val(objs[i].Offset) : i \in {j \in 1..Len(objs) : objs[j].Offset # None}}

\* the points with every offset of 0 taken away
WithoutZeroOffsets(objs) ==
    [i \in 1..Len(objs) |->
        IF objs[i].Offset = Some(0) THEN [objs[i] EXCEPT !.Offset = None]
        ELSE objs[i]]

\* C23: 0 is a value, not "unset": a point with start frame 0 gets no phase
\* booleans and occurs exactly in the frames f with f mod period = 0; a
\* point with offset 0 is pinned to start bit 0; UNIT is the gcd with the
\* zero offsets included, and the same as without them.
C23_ZeroIsAValue ==
    /\ pc # "new" =>
          /\ UNIT = gcd2(gcdSet(UniqueSizes(objects)),
                         gcd2(gcdSet(GivenOffsets(objects)), FRAME_SIZE_BITS))
          /\ UNIT = UnitOf(WithoutZeroOffsets(objects), FRAME_SIZE_BITS)
    /\ pc \notin {"new", "constructed", "failed"} =>
          \A i \in Objs :
             /\ objects[i].Start_Frame = Some(0) =>
                   /\ objects[i].phase_vars = 0
                   /\ model.vars[i].nphase = 0
                   /\ i \notin model.exactly_one
             /\ objects[i].Offset = Some(0) => << i, 0 >> \in model.pin
    /\ Materialized =>
          \A i \in Objs :
             /\ objects[i].Start_Frame = Some(0) =>
                   \A f \in Frames :
                      /\ Shown(i, f) <=> f % objects[i].Period = 0
                      /\ (Cells(i, f) # {}) <=> f % objects[i].Period = 0
             /\ objects[i].Offset = Some(0) =>
                   /\ SolvedBit(i) = 0
                   /\ \A f \in Frames :
                         Shown(i, f) => Cells(i, f) = 0..(objects[i].Size - 1)

\* materialized: a point of period 2 with start frame 0 and offset 0, in
\* frame 0 from bit 0 on and not in frame 1
C23_Witness ==
    /\ Materialized
    /\ \E i \in Objs :
          /\ objects[i].Start_Frame = Some(0)
          /\ objects[i].Offset = Some(0)
          /\ objects[i].Period = 2
          /\ Shown(i, 0) /\ ~Shown(i, 1)
          /\ Cells(i, 0) = 0..(objects[i].Size - 1)

====
